---- MODULE Spec2Model ----
(***************************************************************************)
(* Model of the patch application engine of obs-service-cargo_vendor       *)
(* (cargo/src/patch.rs): apply_patch_to_string, make_patch_path_absolute   *)
(* and apply_patch.                                                         *)
(*                                                                         *)
(* A string is a sequence of one-character strings.  A path is a record    *)
(* [abs, comps]: whether it starts with the root marker, and its normal     *)
(* components.  A panic (index out of bounds, arithmetic overflow) is a     *)
(* status of its own: it is neither Ok nor Err and it aborts the caller.    *)
(***************************************************************************)
EXTENDS Integers, Sequences, FiniteSets, TLC

VARIABLES
    diff,      \* apply_patch_to_string: the hunks of the Patch
    old,       \* apply_patch_to_string: the old text
    run,       \* apply_patch_to_string: its local variables and position
    prjdir,    \* the project root
    hpath,     \* make_patch_path_absolute: the header path
    resolved,  \* make_patch_path_absolute: the returned path
    patches,   \* apply_patch: the parsed patch set
    fs,        \* the files of the project tree: path -> text, or NoFile
    k,         \* apply_patch: how many entries of patches are done
    cur,       \* apply_patch: the entry p of the for loop
    pc,        \* the position in apply_patch
    ret,       \* the value apply_patch returned
    log,       \* history: the std::fs::write calls that succeeded, in order
    before,    \* history: fs as it was when the current entry was started
    fs0        \* history: fs as it was when apply_patch was called

vars ==
    <<diff, old, run, prjdir, hpath, resolved, patches, fs, k, cur, pc, ret, log,
      before, fs0>>

(***************************************************************************)
(* Bounds of the model.                                                     *)
(***************************************************************************)
MaxOldLines == 2
MaxPatchLines == 2
MaxPatches == 2

NL == "\n"
CR == "\r"
LineTexts == {<<"a">>, <<"b">>}
LineKinds == {"Context", "Add", "Remove"}

SeqsUpTo(S, n) == UNION {[1..m -> S] : m \in 0..n}

(***************************************************************************)
(* str::lines and [&str]::join                                              *)
(***************************************************************************)
\* The index of the first newline of s, or 0.
RECURSIVE FirstNL(_, _)
FirstNL(s, i) ==
    IF i > Len(s) THEN 0
    ELSE IF s[i] = NL THEN i
    ELSE FirstNL(s, i + 1)

\* A line that ended with "\n" also loses one "\r" in front of it.
StripCR(l) ==
    IF Len(l) > 0 /\ l[Len(l)] = CR THEN SubSeq(l, 1, Len(l) - 1) ELSE l

\* str::lines: split after every "\n"; a last piece without "\n" is a line
\* unless it is empty.
RECURSIVE Lines(_)
Lines(s) ==
    IF s = <<>> THEN <<>>
    ELSE LET i == FirstNL(s, 1) IN
         IF i = 0 THEN <<s>>
         ELSE <<StripCR(SubSeq(s, 1, i - 1))>> \o Lines(SubSeq(s, i + 1, Len(s)))

\* [&str]::join("\n"): the pieces with one "\n" between neighbours.
RECURSIVE Join(_)
Join(ls) ==
    IF ls = <<>> THEN <<>>
    ELSE IF Len(ls) = 1 THEN ls[1]
    ELSE ls[1] \o <<NL>> \o Join(Tail(ls))

(***************************************************************************)
(* The inputs: old texts and hunk sequences as the parser delivers them     *)
(* (every hunk has at least one line; old_range.start is any u64).          *)
(***************************************************************************)
OldTexts ==
    {Join(ls) \o e : ls \in SeqsUpTo(LineTexts, MaxOldLines), e \in {<<>>, <<NL>>}}

PatchLines == [kind : LineKinds, text : LineTexts]

Starts == 0..MaxOldLines

HunksOfSize(n) ==
    [start : Starts, lines : [1..n -> PatchLines]]

RECURSIVE HunkSeqs(_)
\* Every hunk sequence with exactly n lines in total.
HunkSeqs(n) ==
    IF n = 0 THEN {<<>>}
    ELSE UNION {{<<h>> \o r : h \in HunksOfSize(m), r \in HunkSeqs(n - m)} : m \in 1..n}

\* Every hunk sequence with at most n lines in total.
DiffsUpTo(n) == UNION {HunkSeqs(m) : m \in 0..n}

(***************************************************************************)
(* apply_patch_to_string, one step at a time.  run.hunk and run.line are    *)
(* the 1-based positions of the two for loops, run.old_line is the 0-based  *)
(* cursor, run.access the index old_lines was last indexed with.            *)
(***************************************************************************)
NoAccess == <<>>

StartRun ==
    [status |-> "hunks", hunk |-> 1, line |-> 1, old_line |-> 0, out |-> <<>>,
     access |-> NoAccess, err |-> "none", text |-> <<>>]

\* A slip: old_range.start taken as 0-based.
BelowCopyBoundZeroBased(c, h) == c < h.start

\* old_line < hunk.old_range.start as usize - 1.  Without overflow checks
\* 0usize - 1 wraps to usize::MAX, which is above every cursor value.
BelowCopyBound(c, h) == IF h.start = 0 THEN TRUE ELSE c < h.start - 1

\* old_lines[i]: the element, or an index-out-of-bounds panic.
InBounds(ol, i) == i < Len(ol)

\* for hunk in &diff.hunks: the next hunk, or Ok(out.join("\n")).
LoopHead(d, r) ==
    IF r.hunk > Len(d) THEN [r EXCEPT !.status = "Ok", !.text = Join(r.out)]
    ELSE [r EXCEPT !.status = "copy"]

\* hunk.old_range.start as usize - 1 in a build with overflow checks
\* panics ("attempt to subtract with overflow") when start is 0.
OverflowPanic(r) == [r EXCEPT !.status = "panic", !.err = "SubtractOverflow"]

\* One evaluation of the while condition and, when it holds, of the body.
CopyStep(d, ol, r) ==
    IF BelowCopyBound(r.old_line, d[r.hunk]) THEN
        IF InBounds(ol, r.old_line) THEN
            [r EXCEPT !.out = Append(r.out, ol[r.old_line + 1]),
                      !.old_line = r.old_line + 1,
                      !.access = <<r.old_line>>]
        ELSE [r EXCEPT !.status = "panic", !.err = "IndexOutOfBounds",
                       !.access = <<r.old_line>>]
    ELSE [r EXCEPT !.status = "lines", !.line = 1]

\* The next line of the hunk; after its last line, the outer loop goes on.
NextLine(d, r) ==
    IF r.line >= Len(d[r.hunk].lines)
    THEN LoopHead(d, [r EXCEPT !.hunk = r.hunk + 1, !.line = 1])
    ELSE [r EXCEPT !.line = r.line + 1]

\* A slip: a removed line is pushed to out like a context line.
MatchStepKeepsRemoved(d, ol, r, l) ==
    IF ~InBounds(ol, r.old_line) THEN
        [r EXCEPT !.status = "panic", !.err = "IndexOutOfBounds",
                  !.access = <<r.old_line>>]
    ELSE IF ol[r.old_line + 1] # l.text THEN
        [r EXCEPT !.status = "Err",
                  !.err = IF l.kind = "Context" THEN "ContextMismatch"
                          ELSE "RemovalMismatch",
                  !.access = <<r.old_line>>]
    ELSE
        NextLine(d, [r EXCEPT !.out = Append(r.out, l.text),
                              !.old_line = r.old_line + 1,
                              !.access = <<r.old_line>>])

\* Line::Context(s) and Line::Remove(s): compare with old_lines[old_line].
MatchStep(d, ol, r, l) ==
    IF ~InBounds(ol, r.old_line) THEN
        [r EXCEPT !.status = "panic", !.err = "IndexOutOfBounds",
                  !.access = <<r.old_line>>]
    ELSE IF ol[r.old_line + 1] # l.text THEN
        [r EXCEPT !.status = "Err",
                  !.err = IF l.kind = "Context" THEN "ContextMismatch"
                          ELSE "RemovalMismatch",
                  !.access = <<r.old_line>>]
    ELSE
        NextLine(d, [r EXCEPT !.out = IF l.kind = "Context"
                                      THEN Append(r.out, l.text) ELSE r.out,
                              !.old_line = r.old_line + 1,
                              !.access = <<r.old_line>>])

\* A slip: an added line moves the cursor like a context line.
AddStepAdvancesCursor(d, r, l) ==
    NextLine(d, [r EXCEPT !.out = Append(r.out, l.text),
                          !.old_line = r.old_line + 1])

\* Line::Add(s) => out.push(s)
AddStep(d, r, l) == NextLine(d, [r EXCEPT !.out = Append(r.out, l.text)])

\* One iteration of for line in &hunk.lines.
LineStep(d, ol, r) ==
    LET l == d[r.hunk].lines[r.line] IN
    IF l.kind = "Add" THEN AddStep(d, r, l) ELSE MatchStep(d, ol, r, l)

Running(r) == r.status \in {"hunks", "copy", "lines"}

Step(d, ol, r) ==
    CASE r.status = "hunks" -> LoopHead(d, r)
      [] r.status = "copy" -> CopyStep(d, ol, r)
      [] r.status = "lines" -> LineStep(d, ol, r)
      [] OTHER -> r

RECURSIVE RunToEnd(_, _, _)
RunToEnd(d, ol, r) == IF Running(r) THEN RunToEnd(d, ol, Step(d, ol, r)) ELSE r

\* The value apply_patch_to_string returns, or the panic it ends in.
apply_patch_to_string(d, o) ==
    LET r == RunToEnd(d, Lines(o), StartRun) IN
    CASE r.status = "Ok" -> [tag |-> "Ok", text |-> r.text, err |-> "none"]
      [] r.status = "Err" -> [tag |-> "Err", text |-> <<>>, err |-> r.err]
      [] OTHER -> [tag |-> "panic", text |-> <<>>, err |-> r.err]

(***************************************************************************)
(* make_patch_path_absolute.  Path::iter yields the root marker "/" of an   *)
(* absolute path as a component of its own; PathBuf::push of an absolute    *)
(* path replaces what was there.                                            *)
(***************************************************************************)
ROOT == "/"

EmptyPath == [abs |-> FALSE, comps |-> <<>>]

Iter(p) == (IF p.abs THEN <<ROOT>> ELSE <<>>) \o p.comps

Skip(cs, n) == SubSeq(cs, n + 1, Len(cs))

\* PathBuf::push of one component.
Push(buf, c) ==
    IF c = ROOT THEN [abs |-> TRUE, comps |-> <<>>]
    ELSE [buf EXCEPT !.comps = Append(buf.comps, c)]

\* Iterator::collect::<PathBuf>: push the components one after the other.
RECURSIVE Collect(_, _)
Collect(buf, cs) ==
    IF cs = <<>> THEN buf ELSE Collect(Push(buf, Head(cs)), Tail(cs))

\* Path::join
JoinPath(base, p) ==
    IF p.abs THEN p ELSE [base EXCEPT !.comps = base.comps \o p.comps]

\* A slip: the root marker is not counted as a component.
to_skip_no_root(path) == 1

to_skip(path) == IF path.abs THEN 2 ELSE 1

make_patch_path_absolute(dir, path) ==
    LET stripped == Collect(EmptyPath, Skip(Iter(path), to_skip(path)))
    IN JoinPath(dir, stripped)

(***************************************************************************)
(* The inputs of the path resolver and of apply_patch.                      *)
(***************************************************************************)
MaxPathLen == 2

Names == {"a", "x", "y"}

AllPaths == [abs : BOOLEAN, comps : SeqsUpTo(Names, MaxPathLen)]

PrjDirs == {[abs |-> TRUE, comps |-> <<"w">>], [abs |-> FALSE, comps |-> <<>>]}

WorkDir == [abs |-> TRUE, comps |-> <<"w">>]

\* The header paths of the patch sets: one relative, one absolute.
HeaderPaths ==
    {[abs |-> FALSE, comps |-> <<"a", "x">>], [abs |-> TRUE, comps |-> <<"a", "y">>]}

Files == {make_patch_path_absolute(WorkDir, h) : h \in HeaderPaths}

NoFile == <<"NoFile">>

FsTexts == {<<"a">>, <<"b">>}

\* The hunk sequences of the patch sets: no hunk, or one hunk of one line.
SetDiffs ==
    {<<>>} \cup
    {<<[start |-> s, lines |-> <<[kind |-> kd, text |-> <<"a">>]>>]>> :
        s \in {0, 1}, kd \in LineKinds}

FilePatches == [old_path : HeaderPaths, new_path : HeaderPaths, hunks : SetDiffs]

old_lines == Lines(old)

NoPatch == [old_path |-> EmptyPath, new_path |-> EmptyPath, hunks |-> <<>>]
NoRet == [tag |-> "none", err |-> "none"]
Err(e) == [tag |-> "Err", err |-> e]
OkRet == [tag |-> "Ok", err |-> "none"]

(***************************************************************************)
(* apply_patch_to_string as actions; they are part of apply_patch too.      *)
(***************************************************************************)
StrFrame ==
    UNCHANGED <<diff, old, prjdir, hpath, resolved, patches, fs, k, cur, pc, ret,
                log, before, fs0>>

StrLoopHead ==
    /\ pc = "apply" /\ run.status = "hunks"
    /\ run' = LoopHead(diff, run)
    /\ StrFrame

\* A build with overflow checks.
StrOverflowPanic ==
    /\ pc = "apply" /\ run.status = "copy"
    /\ diff[run.hunk].start = 0
    /\ run' = OverflowPanic(run)
    /\ StrFrame

StrCopy ==
    /\ pc = "apply" /\ run.status = "copy"
    /\ run' = CopyStep(diff, old_lines, run)
    /\ StrFrame

StrLine ==
    /\ pc = "apply" /\ run.status = "lines"
    /\ run' = LineStep(diff, old_lines, run)
    /\ StrFrame

NextStr == StrLoopHead \/ StrOverflowPanic \/ StrCopy \/ StrLine

InitStr ==
    /\ diff \in DiffsUpTo(MaxPatchLines)
    /\ old \in OldTexts
    /\ run = StartRun
    /\ pc = "apply"
    /\ prjdir = WorkDir /\ hpath = EmptyPath /\ resolved = EmptyPath
    /\ patches = <<>> /\ fs = <<>> /\ k = 0 /\ cur = NoPatch /\ ret = NoRet
    /\ log = <<>> /\ before = <<>> /\ fs0 = <<>>

SpecStr == InitStr /\ [][NextStr]_vars

(***************************************************************************)
(* make_patch_path_absolute on its own.                                     *)
(***************************************************************************)
InitPath ==
    /\ prjdir \in PrjDirs
    /\ hpath \in AllPaths
    /\ resolved = EmptyPath
    /\ pc = "resolve"
    /\ diff = <<>> /\ old = <<>> /\ run = StartRun
    /\ patches = <<>> /\ fs = <<>> /\ k = 0 /\ cur = NoPatch /\ ret = NoRet
    /\ log = <<>> /\ before = <<>> /\ fs0 = <<>>

Resolve ==
    /\ pc = "resolve"
    /\ resolved' = make_patch_path_absolute(prjdir, hpath)
    /\ pc' = "resolved"
    /\ UNCHANGED <<diff, old, run, prjdir, hpath, patches, fs, k, cur, ret, log,
                   before, fs0>>

NextPath == Resolve

SpecPath == InitPath /\ [][NextPath]_vars

(***************************************************************************)
(* apply_patch                                                              *)
(***************************************************************************)
absolute_old_path(p) == make_patch_path_absolute(prjdir, p.old_path)

\* A slip: the patched text goes back to the file it was read from.
absolute_new_path_in_place(p) == make_patch_path_absolute(prjdir, p.old_path)

absolute_new_path(p) == make_patch_path_absolute(prjdir, p.new_path)

WriteFile(f, path, text) == [f EXCEPT ![path] = text]

Init ==
    /\ prjdir = WorkDir
    /\ patches \in SeqsUpTo(FilePatches, MaxPatches)
    /\ fs \in [Files -> FsTexts \cup {NoFile}]
    /\ fs0 = fs /\ before = fs
    /\ k = 0 /\ cur = NoPatch /\ pc = "start" /\ ret = NoRet /\ log = <<>>
    /\ diff = <<>> /\ old = <<>> /\ run = StartRun
    /\ hpath = EmptyPath /\ resolved = EmptyPath

Return(r) ==
    /\ ret' = r
    /\ pc' = "returned"

\* std::fs::read_to_string of the patch fails.
ReadPatchFail ==
    /\ pc = "start"
    /\ Return(Err("PatchRead"))
    /\ UNCHANGED <<diff, old, run, prjdir, hpath, resolved, patches, fs, k, cur,
                   log, before, fs0>>

\* Patch::from_multiple fails.
ParseFail ==
    /\ pc = "start"
    /\ Return(Err("Parse"))
    /\ UNCHANGED <<diff, old, run, prjdir, hpath, resolved, patches, fs, k, cur,
                   log, before, fs0>>

\* The patch is read and parsed: patches is the parsed set.
StartApplying ==
    /\ pc = "start"
    /\ pc' = "loop"
    /\ UNCHANGED <<diff, old, run, prjdir, hpath, resolved, patches, fs, k, cur,
                   ret, log, before, fs0>>

\* for p in &patches is over: Ok(()).
LoopDone ==
    /\ pc = "loop" /\ k = Len(patches)
    /\ Return(OkRet)
    /\ UNCHANGED <<diff, old, run, prjdir, hpath, resolved, patches, fs, k, cur,
                   log, before, fs0>>

\* The next entry; reading its old file fails.
ReadOldFail ==
    /\ pc = "loop" /\ k < Len(patches)
    /\ LET p == patches[k + 1] IN
        /\ fs[absolute_old_path(p)] = NoFile
        /\ cur' = p
        /\ before' = fs
    /\ Return(Err("OldRead"))
    /\ UNCHANGED <<diff, old, run, prjdir, hpath, resolved, patches, fs, k, log, fs0>>

\* The next entry; its old file is read and apply_patch_to_string is called.
ReadOld ==
    /\ pc = "loop" /\ k < Len(patches)
    /\ LET p == patches[k + 1] IN
        /\ fs[absolute_old_path(p)] # NoFile
        /\ cur' = p
        /\ before' = fs
        /\ old' = fs[absolute_old_path(p)]
        /\ diff' = p.hunks
    /\ run' = StartRun
    /\ pc' = "apply"
    /\ UNCHANGED <<prjdir, hpath, resolved, patches, fs, k, ret, log, fs0>>

\* A slip: what was built before the mismatch is written before returning.
ApplyErrWritesPartial ==
    /\ pc = "apply" /\ run.status = "Err"
    /\ fs' = WriteFile(fs, absolute_new_path(cur), Join(run.out))
    /\ Return(Err(run.err))
    /\ UNCHANGED <<diff, old, run, prjdir, hpath, resolved, patches, k, cur,
                   log, before, fs0>>

\* A slip: the error of one entry is dropped and the loop goes on.
ApplyErrContinues ==
    /\ pc = "apply" /\ run.status = "Err"
    /\ k' = k + 1
    /\ pc' = "loop"
    /\ UNCHANGED <<diff, old, run, prjdir, hpath, resolved, patches, fs, cur,
                   ret, log, before, fs0>>

\* apply_patch_to_string(p, &old)? returned an Err.
ApplyErr ==
    /\ pc = "apply" /\ run.status = "Err"
    /\ Return(Err(run.err))
    /\ UNCHANGED <<diff, old, run, prjdir, hpath, resolved, patches, fs, k, cur,
                   log, before, fs0>>

\* apply_patch_to_string panicked: the process unwinds, nothing is returned.
ApplyPanic ==
    /\ pc = "apply" /\ run.status = "panic"
    /\ pc' = "aborted"
    /\ UNCHANGED <<diff, old, run, prjdir, hpath, resolved, patches, fs, k, cur,
                   ret, log, before, fs0>>

\* std::fs::write(absolute_new_path, new) succeeds; the loop goes on.
WriteOk ==
    /\ pc = "apply" /\ run.status = "Ok"
    /\ fs' = WriteFile(fs, absolute_new_path(cur), run.text)
    /\ log' = Append(log, [entry |-> k, path |-> absolute_new_path(cur), text |-> run.text])
    /\ k' = k + 1
    /\ pc' = "loop"
    /\ UNCHANGED <<diff, old, run, prjdir, hpath, resolved, patches, cur, ret,
                   before, fs0>>

\* std::fs::write fails: File::create fails and the file is as it was, or
\* write_all fails after File::create truncated the file and only the first
\* n characters of the text got written.
WriteFail ==
    /\ pc = "apply" /\ run.status = "Ok"
    /\ \/ fs' = fs
       \/ \E n \in 0..(Len(run.text) - 1) :
            fs' = WriteFile(fs, absolute_new_path(cur), SubSeq(run.text, 1, n))
    /\ Return(Err("Write"))
    /\ UNCHANGED <<diff, old, run, prjdir, hpath, resolved, patches, k, cur,
                   log, before, fs0>>

Next ==
    \/ ReadPatchFail \/ ParseFail \/ StartApplying
    \/ LoopDone \/ ReadOldFail \/ ReadOld
    \/ StrLoopHead \/ StrOverflowPanic \/ StrCopy \/ StrLine
    \/ ApplyErr \/ ApplyPanic \/ WriteOk \/ WriteFail

Spec == Init /\ [][Next]_vars

(***************************************************************************)
(* What a unified diff means, stated on the patch and the old lines alone.  *)
(***************************************************************************)
RECURSIVE CountOld(_)
\* How many lines of the old file a line sequence covers (Context, Remove).
CountOld(ls) ==
    IF ls = <<>> THEN 0
    ELSE (IF Head(ls).kind = "Add" THEN 0 ELSE 1) + CountOld(Tail(ls))

RECURSIVE NewTexts(_)
\* The lines a line sequence puts into the new file (Context, Add).
NewTexts(ls) ==
    IF ls = <<>> THEN <<>>
    ELSE (IF Head(ls).kind = "Remove" THEN <<>> ELSE <<Head(ls).text>>)
         \o NewTexts(Tail(ls))

\* The 0-based old-file position the j-th line of hunk h stands for.
PosOf(h, j) == h.start - 1 + CountOld(SubSeq(h.lines, 1, j - 1))

EndOf(h) == h.start - 1 + CountOld(h.lines)

\* The hunks 1..n are stored ascending and do not overlap.
Ascending(d, n) ==
    /\ \A i \in 1..n : d[i].start >= 1
    /\ \A i \in 1..(n - 1) : EndOf(d[i]) <= d[i + 1].start - 1

\* Every Context and Remove line equals the old line at its position.
Matches(d, ol) ==
    \A i \in 1..Len(d) : \A j \in 1..Len(d[i].lines) :
        d[i].lines[j].kind # "Add" =>
            /\ PosOf(d[i], j) < Len(ol)
            /\ ol[PosOf(d[i], j) + 1] = d[i].lines[j].text

\* A correctly generated patch for the old lines ol, made with context.
WellFormed(d, ol) ==
    /\ d # <<>>
    /\ Ascending(d, Len(d))
    /\ Matches(d, ol)
    /\ \A i \in 1..Len(d) : CountOld(d[i].lines) >= 1

RECURSIVE PatchedFrom(_, _, _, _)
\* The lines of the new file F': the old lines with every hunk's range
\* replaced, the lines after the last hunk included.
PatchedFrom(d, ol, i, c) ==
    IF i > Len(d) THEN SubSeq(ol, c + 1, Len(ol))
    ELSE SubSeq(ol, c + 1, d[i].start - 1) \o NewTexts(d[i].lines)
         \o PatchedFrom(d, ol, i + 1, EndOf(d[i]))

EndsWithNL(t) == Len(t) > 0 /\ t[Len(t)] = NL

\* The text of F': its lines, and the final newline of F where F has one.
PatchedText(d, o) ==
    LET ls == PatchedFrom(d, Lines(o), 1, 0) IN
    IF ls = <<>> THEN <<>>
    ELSE Join(ls) \o (IF EndsWithNL(o) THEN <<NL>> ELSE <<>>)

Max(a, b) == IF a >= b THEN a ELSE b

RECURSIVE KeptFrom(_, _, _, _)
\* The old lines in front of each hunk and the hunks' Context and Add
\* texts, and nothing after the last hunk.
KeptFrom(d, ol, i, c) ==
    IF i > Len(d) THEN <<>>
    ELSE LET c1 == Max(c, d[i].start - 1) IN
         SubSeq(ol, c + 1, d[i].start - 1) \o NewTexts(d[i].lines)
         \o KeptFrom(d, ol, i + 1, c1 + CountOld(d[i].lines))

RECURSIVE FinalCursor(_, _, _)
FinalCursor(d, i, c) ==
    IF i > Len(d) THEN c
    ELSE FinalCursor(d, i + 1, Max(c, d[i].start - 1) + CountOld(d[i].lines))

Finished == pc = "apply" /\ ~Running(run)

\* The line the inner for loop is at.
AtLine == diff[run.hunk].lines[run.line]

(***************************************************************************)
(* Claims about apply_patch_to_string (SpecStr).                            *)
(***************************************************************************)
\* C1: round trip.  For every old file F and every correctly generated
\* patch P for F (hunks ascending, not overlapping, every Context and Remove
\* line equal to the F line at its position; P need not reach the end of F)
\* apply_patch_to_string(P, F) succeeds and returns exactly F', the lines
\* of F after the last hunk and the final newline included.
C1_RoundTrip ==
    (Finished /\ WellFormed(diff, old_lines)) =>
        (run.status = "Ok" /\ run.text = PatchedText(diff, old))

\* C5: every failure is a returned error value.  For every hunk sequence
\* and old text apply_patch_to_string ends with Ok(text) or Err(PatchError),
\* never with an abort.
C5_NoAbort == Finished => run.status \in {"Ok", "Err"}

\* C6: no-op hunks.  For every old file and every hunk sequence made only of
\* Context lines that equal the old line at their position,
\* apply_patch_to_string succeeds and returns the old text byte for byte.
C6_NoOpIdentity ==
    (/\ Finished
     /\ WellFormed(diff, old_lines)
     /\ \A i \in 1..Len(diff) : \A j \in 1..Len(diff[i].lines) :
            diff[i].lines[j].kind = "Context")
    => (run.status = "Ok" /\ run.text = old)

\* C8: cursor bounds.  In every state of a run 0 <= old_line <= number of
\* old lines, old_range.start - 1 is never negative, and the old file is
\* only indexed below its line count.
C8_CursorBounds ==
    pc = "apply" =>
        /\ 0 <= run.old_line /\ run.old_line <= Len(old_lines)
        /\ (run.status \in {"copy", "lines"} => diff[run.hunk].start - 1 >= 0)
        /\ (run.access # NoAccess => run.access[1] < Len(old_lines))

\* C9 as stated: the hunks are processed in ascending order of
\* old_range.start and the cursor equals old_range.start - 1 when a hunk's
\* lines start, whatever the stored order of the hunks.
C9_AscendingPlacement ==
    (pc = "apply" /\ run.status \in {"copy", "lines"}) =>
        /\ (run.hunk > 1 => diff[run.hunk - 1].start <= diff[run.hunk].start)
        /\ ((run.status = "lines" /\ run.line = 1) =>
                run.old_line = diff[run.hunk].start - 1)

\* C9 as amended: the hunks are processed in the order the patch stores
\* them, one after the other, a hunk's last line being consumed before the
\* next hunk's leading copy begins; when a hunk's lines start the cursor is
\* at least old_range.start - 1, and equal to it when the hunks up to this
\* one are stored ascending and do not overlap.
C9_PlacementInv ==
    (pc = "apply" /\ run.status = "lines" /\ run.line = 1) =>
        /\ diff[run.hunk].start >= 1
        /\ run.old_line >= diff[run.hunk].start - 1
        /\ (Ascending(diff, run.hunk) => run.old_line = diff[run.hunk].start - 1)

C9_StoredOrderStep ==
    \/ run'.hunk = run.hunk
    \/ /\ run'.hunk = run.hunk + 1
       /\ run.status = "lines"
       /\ run.line = Len(diff[run.hunk].lines)
       /\ run'.line = 1
       /\ run'.status \in {"copy", "Ok"}
    \/ pc' # "apply" \/ pc # "apply"

C9_StoredOrder == []C9_PlacementInv /\ [][C9_StoredOrderStep]_vars

C9_Witness ==
    /\ pc = "apply" /\ run.status = "lines" /\ run.line = 1 /\ run.hunk = 2
    /\ diff[1].start > diff[2].start
    /\ run.old_line > diff[2].start - 1

\* C10: content after the last hunk is dropped.  When apply_patch_to_string
\* succeeds its text is the old lines in front of each hunk and the hunks'
\* Context and Add texts joined by single newlines; no old line at or after
\* the final cursor is output, the text ends with the last hunk's last
\* Context or Add line, and a patch without hunks yields the empty text.
C10_TailDropped ==
    (pc = "apply" /\ run.status = "Ok") =>
        /\ run.out = KeptFrom(diff, old_lines, 1, 0)
        /\ run.text = Join(run.out)
        /\ run.old_line = FinalCursor(diff, 1, 0)
        /\ (diff = <<>> => run.text = <<>>)
        /\ (diff # <<>> /\ NewTexts(diff[Len(diff)].lines) # <<>> =>
                LET nt == NewTexts(diff[Len(diff)].lines)
                IN run.out[Len(run.out)] = nt[Len(nt)])

C10_Witness ==
    /\ pc = "apply" /\ run.status = "Ok"
    /\ Len(diff) = 2
    /\ run.old_line < Len(old_lines)
    /\ run.out # <<>>

(***************************************************************************)
(* Claims about make_patch_path_absolute (SpecPath).                        *)
(***************************************************************************)
\* C7: path resolution (-p1).  make_patch_path_absolute returns the project
\* root joined with the header path's components after dropping the first
\* 2 when the header path is absolute and the first 1 when it is relative;
\* a header path with nothing left resolves to the project root itself, and
\* nothing else changes.
C7_PathResolution ==
    pc = "resolved" =>
        LET cs == (IF hpath.abs THEN <<ROOT>> ELSE <<>>) \o hpath.comps
            n == IF hpath.abs THEN 2 ELSE 1
            rest == IF Len(cs) <= n THEN <<>> ELSE [i \in 1..(Len(cs) - n) |-> cs[i + n]]
        IN /\ resolved = [abs |-> prjdir.abs, comps |-> prjdir.comps \o rest]
           /\ (rest = <<>> => resolved = prjdir)
           /\ fs = <<>> /\ log = <<>>

C7_Witness ==
    /\ pc = "resolved"
    /\ hpath.abs /\ Len(hpath.comps) = 2
    /\ resolved = [abs |-> prjdir.abs, comps |-> prjdir.comps \o <<hpath.comps[2]>>]

(***************************************************************************)
(* Claims about apply_patch (Spec).                                         *)
(***************************************************************************)
\* The files an entry's header paths stand for under -p1.
SourceOf(p) == make_patch_path_absolute(prjdir, p.old_path)
DestOf(p) == make_patch_path_absolute(prjdir, p.new_path)

Mismatches == {"ContextMismatch", "RemovalMismatch"}

\* The compared line differs from the old line at the cursor.
AtMismatch ==
    /\ pc = "apply" /\ run.status = "lines"
    /\ AtLine.kind # "Add"
    /\ run.old_line < Len(old_lines)
    /\ old_lines[run.old_line + 1] # AtLine.text

\* C2: mismatch detection.  If a Context or Remove line differs from the old
\* file's line at the cursor, apply_patch fails with ContextMismatch (for a
\* Context line) or RemovalMismatch (for a Remove line) and writes nothing
\* for that FilePatch: the files at the old and the new path are what they
\* were when the FilePatch was started.
C2_MismatchStep ==
    /\ AtMismatch =>
           /\ run'.status = "Err"
           /\ run'.err = (IF AtLine.kind = "Context" THEN "ContextMismatch"
                          ELSE "RemovalMismatch")
           /\ fs' = fs /\ log' = log
    /\ (pc = "apply" /\ run.status = "Err") =>
           /\ pc' = "returned" /\ ret' = Err(run.err)
           /\ fs' = fs /\ log' = log

C2_MismatchInv ==
    (\/ pc = "apply" /\ run.status = "Err"
     \/ pc = "returned" /\ ret.err \in Mismatches)
    => /\ run.err \in Mismatches
       /\ fs = before
       /\ fs[DestOf(cur)] = before[DestOf(cur)]
       /\ fs[SourceOf(cur)] = before[SourceOf(cur)]
       /\ Len(log) = k
       /\ \A i \in 1..Len(log) : log[i].entry < k

C2_MismatchNoWrite == []C2_MismatchInv /\ [][C2_MismatchStep]_vars

C2_Witness ==
    /\ pc = "returned" /\ ret = Err("RemovalMismatch")
    /\ k = 1 /\ Len(log) = 1
    /\ SourceOf(cur) # DestOf(cur)

\* fs after the writes of a log, in order.
RECURSIVE Replay(_, _)
Replay(f, l) ==
    IF l = <<>> THEN f
    ELSE Replay([f EXCEPT ![Head(l).path] = Head(l).text], Tail(l))

FailedAtEntry == pc = "returned" /\ ret.tag = "Err" /\ ret.err \notin {"PatchRead", "Parse"}

\* C3 as stated: on return with an error at entry k exactly the entries
\* 0..k-1 have been written once each and keep their patched content, and
\* the destinations of entry k and of every later entry have never been
\* written; on success every entry has been written exactly once.
C3_FailFastDestinations ==
    /\ FailedAtEntry =>
        /\ Len(log) = k
        /\ \A i \in 1..k :
            /\ log[i].entry = i - 1
            /\ log[i].path = DestOf(patches[i])
            /\ fs[DestOf(patches[i])] = log[i].text
        /\ \A j \in (k + 1)..Len(patches) : \A i \in 1..Len(log) :
            log[i].path # DestOf(patches[j])
        /\ \A j \in (k + 1)..Len(patches) :
            fs[DestOf(patches[j])] = fs0[DestOf(patches[j])]
    /\ (pc = "returned" /\ ret.tag = "Ok") =>
        /\ Len(log) = Len(patches)
        /\ \A i \in 1..Len(log) : log[i].entry = i - 1

\* The write of entry i (1-based) is the text apply_patch_to_string returns
\* for the entry's hunks and its old file as the earlier writes left it.
WriteOfEntry(i) ==
    LET f == Replay(fs0, SubSeq(log, 1, i - 1))
        r == apply_patch_to_string(patches[i].hunks, f[SourceOf(patches[i])])
    IN /\ log[i].entry = i - 1
       /\ log[i].path = DestOf(patches[i])
       /\ f[SourceOf(patches[i])] # NoFile
       /\ r.tag = "Ok"
       /\ log[i].text = r.text

\* C3 as amended: apply_patch handles the entries in parse order and stops
\* at the first one that fails.  At every moment exactly the entries 0..k-1
\* have each completed one write, in order, each with the text its whole
\* hunk sequence produced, and no later entry has completed a write; every
\* file holds the text of the last of these writes to it, or what it held
\* before the call.  The exception is a failed write of entry k, which may
\* leave a truncated text at entry k's destination.  On success k is the
\* number of entries.
C3_FailFastWrites ==
    pc \in {"start", "loop", "apply", "returned", "aborted"} =>
        /\ k <= Len(patches)
        /\ Len(log) = k
        /\ \A i \in 1..k : WriteOfEntry(i)
        /\ \/ fs = Replay(fs0, log)
           \/ /\ pc = "returned" /\ ret = Err("Write")
              /\ \E n \in 0..(Len(run.text) - 1) :
                    fs = WriteFile(Replay(fs0, log), DestOf(cur),
                                   SubSeq(run.text, 1, n))
        /\ (pc = "returned" /\ ret.tag = "Ok") => k = Len(patches)
        /\ FailedAtEntry => (k < Len(patches) /\ cur = patches[k + 1])
        /\ (pc = "returned" /\ ret.err \in {"PatchRead", "Parse"}) => k = 0

C3_Witness ==
    /\ FailedAtEntry /\ ret.err \in Mismatches
    /\ k = 1 /\ Len(patches) = 2
    /\ DestOf(patches[1]) = DestOf(patches[2])
    /\ fs[DestOf(patches[1])] = log[1].text
    /\ fs # fs0

\* C4: rename support.  For a FilePatch whose old and new path resolve to
\* different files apply_patch reads the old path, writes the patched text
\* to the new path and leaves the file at the old path as it was.
C4_Rename ==
    (pc = "loop" /\ k >= 1 /\ SourceOf(cur) # DestOf(cur)) =>
        /\ cur = patches[k]
        /\ before[SourceOf(cur)] # NoFile
        /\ old = before[SourceOf(cur)]
        /\ apply_patch_to_string(cur.hunks, before[SourceOf(cur)]).tag = "Ok"
        /\ fs[DestOf(cur)] = apply_patch_to_string(cur.hunks, before[SourceOf(cur)]).text
        /\ fs[SourceOf(cur)] = before[SourceOf(cur)]

C4_Witness ==
    /\ pc = "loop" /\ k >= 1 /\ SourceOf(cur) # DestOf(cur)
    /\ fs[DestOf(cur)] # before[DestOf(cur)]
    /\ fs[DestOf(cur)] # fs[SourceOf(cur)]

(***************************************************************************)
(* Line accounting of apply_patch_to_string (SpecStr).                      *)
(***************************************************************************)
RECURSIVE LinesOfHunks(_, _)
\* The lines of the hunks 1..n, in order.
LinesOfHunks(d, n) ==
    IF n = 0 THEN <<>> ELSE LinesOfHunks(d, n - 1) \o d[n].lines

\* The patch lines whose match arm has completed: those of the hunks before
\* the current one and those before the current line of the current hunk.
ProcessedLines ==
    LinesOfHunks(diff, run.hunk - 1)
    \o (IF run.hunk <= Len(diff)
        THEN SubSeq(diff[run.hunk].lines, 1, run.line - 1) ELSE <<>>)

RECURSIVE CountKind(_, _)
CountKind(ls, kd) ==
    IF ls = <<>> THEN 0
    ELSE (IF Head(ls).kind = kd THEN 1 ELSE 0) + CountKind(Tail(ls), kd)

C11_AccountingInv ==
    pc = "apply" =>
        Len(run.out) = run.old_line + CountKind(ProcessedLines, "Add")
                       - CountKind(ProcessedLines, "Remove")

\* The cursor stays or moves on by one; when it moves, the old line it
\* leaves is the one just indexed, so no old line is consumed twice.
C11_CursorStep ==
    (pc = "apply" /\ pc' = "apply") =>
        \/ run'.old_line = run.old_line
        \/ /\ run'.old_line = run.old_line + 1
           /\ run'.access = <<run.old_line>>
           /\ run.old_line < Len(old_lines)

\* C11: line accounting.  At every point of apply_patch_to_string the
\* number of output lines equals the cursor plus the Add lines processed so
\* far minus the Remove lines processed so far, the cursor never decreases,
\* and each old line is consumed (copied, matched as Context or matched as
\* Remove) at most once.
C11_LineAccounting == []C11_AccountingInv /\ [][C11_CursorStep]_vars

C11_Witness ==
    /\ pc = "apply" /\ run.status = "Ok"
    /\ CountKind(ProcessedLines, "Add") >= 1
    /\ CountKind(ProcessedLines, "Remove") >= 1
    /\ run.old_line >= 1
    /\ Len(run.out) = 1

====
